---- MODULE Spec2Model ----
(***************************************************************************)
(* Maze explorer (COM1005-Miro-Dec2022/Miro_Task2_Offline.py).             *)
(*                                                                         *)
(* MiroSimulation answers percept queries against a ground-truth map that  *)
(* is parsed from a map string; MiroHandler keeps the map the Miro has     *)
(* discovered so far, and the main loop scans, decides and moves.          *)
(*                                                                         *)
(* Python lists are modelled as sequences (index i of the list is index    *)
(* i + 1 of the sequence), a map is a sequence of rows, and a read at a    *)
(* negative index wraps around as it does in Python.                       *)
(***************************************************************************)
EXTENDS Integers, Sequences, FiniteSets, TLC

VARIABLES
    map_dimensions,   \* MiroHandler._MAP_DIMENSIONS
    sim_world_map,    \* MiroSimulation.world_map (ground truth)
    world_map,        \* MiroHandler._world_map (what the Miro knows)
    position,         \* the Position shared by handler and simulation
    goal_reached,     \* goal_reached of the main loop
    directions,       \* directions of the main loop (scanning priority)
    scan_i,           \* index into directions of the for loop
    pc                \* position of the main loop

vars == <<map_dimensions, sim_world_map, world_map, position, goal_reached,
          directions, scan_i, pc>>

----------------------------------------------------------------------------
(* Configuration *)

MAP_SIZE == 4

WORLD_MAP_STRING ==
  <<
    <<"+"," "," ","-"," "," ","+"," "," ","-"," "," ","+"," "," ","-"," "," ","+"," "," ","-"," "," ","+">>,
    <<"|"," "," ","o"," "," ","."," "," ","o"," "," ","."," "," ","w"," "," ","."," "," ","o"," "," ","|">>,
    <<"+"," "," ","."," "," ","+"," "," ","."," "," ","+"," "," ","-"," "," ","+"," "," ","."," "," ","+">>,
    <<"|"," "," ","o"," "," ","."," "," ","x"," "," ","."," "," ","o"," "," ","."," "," ","o"," "," ","|">>,
    <<"+"," "," ","-"," "," ","+"," "," ","."," "," ","+"," "," ","."," "," ","+"," "," ","."," "," ","+">>,
    <<"|"," "," ","o"," "," ","."," "," ","o"," "," ","."," "," ","o"," "," ","."," "," ","o"," "," ","|">>,
    <<"+"," "," ","."," "," ","+"," "," ","."," "," ","+"," "," ","."," "," ","+"," "," ","."," "," ","+">>,
    <<"|"," "," ","o"," "," ","."," "," ","o"," "," ","."," "," ","x"," "," ","."," "," ","o"," "," ","|">>,
    <<"+"," "," ","-"," "," ","+"," "," ","-"," "," ","+"," "," ","-"," "," ","+"," "," ","-"," "," ","+">>
  >>

DIRECTIONS == <<"north", "east", "south", "west">>

(* Values held by a map slot.  The source uses None, 0, 1, 2 and "+"; None *)
(* and "+" are given numbers of their own so that slots compare.           *)
None == 0 - 1
NO_WALL == 0
WALL == 1
WALL_INTERSECTION == 3
CELL == 0
PIT == 1
WIN == 2

(* Python truthiness of a slot value: None and 0 are false. *)
Truthy(v) == v # None /\ v # 0

(* list[i], with Python's wrap-around of a negative index. *)
PyGet(l, i) == l[(IF i < 0 THEN i + Len(l) ELSE i) + 1]

(* world_map[y][x] *)
At(m, x, y) == PyGet(PyGet(m, y), x)

(* i is an index Python accepts for the list l: -len(l) .. len(l) - 1 *)
InRange(l, i) == i \in (0 - Len(l))..(Len(l) - 1)

(* world_map[y][x] = v; an index outside the list raises IndexError, and   *)
(* the outcome is then the string "IndexError" instead of a map.           *)
SetAt(m, x, y, v) ==
    IF ~InRange(m, y) THEN "IndexError"
    ELSE LET yy == (IF y < 0 THEN y + Len(m) ELSE y) + 1
         IN  IF ~InRange(m[yy], x) THEN "IndexError"
             ELSE LET xx == (IF x < 0 THEN x + Len(m[yy]) ELSE x) + 1
                  IN  [m EXCEPT ![yy][xx] = v]

(* DIRECTIONS.index(d) *)
DirIndex(d) == CHOOSE i \in 0..3 : DIRECTIONS[i + 1] = d

(* seq * n *)
RECURSIVE Rep(_, _)
Rep(s, n) == IF n <= 0 THEN <<>> ELSE s \o Rep(s, n - 1)

----------------------------------------------------------------------------
(* class Position *)

Position(x, y, d) == [x |-> x, y |-> y, direction |-> d]

right_of(direction) ==
    LET possible_direction_index == DirIndex(direction) + 1
    IN  PyGet(DIRECTIONS,
              IF possible_direction_index <= 3 THEN possible_direction_index ELSE 0)

(* left_of stepping to index + 1 as right_of does. *)
left_of_stepping_right(direction) ==
    LET possible_direction_index == DirIndex(direction) + 1
    IN  PyGet(DIRECTIONS,
              IF possible_direction_index <= 3 THEN possible_direction_index ELSE 0)

left_of(direction) == PyGet(DIRECTIONS, DirIndex(direction) - 1)

handle_direction(step_type, direction) ==
    LET step == IF step_type = "walls" THEN 1 ELSE 2
    IN  IF direction = "north" THEN [x |-> 0, y |-> 0 - step]
        ELSE IF direction = "east" THEN [x |-> step, y |-> 0]
        ELSE IF direction = "south" THEN [x |-> 0, y |-> step]
        ELSE [x |-> 0 - step, y |-> 0]

----------------------------------------------------------------------------
(* class MiroSimulation *)

ParseChar(char) ==
    IF char = "+" THEN <<WALL_INTERSECTION>>
    ELSE IF char \in {"-", "|"} THEN <<WALL>>
    ELSE IF char = "." THEN <<NO_WALL>>
    ELSE IF char = "o" THEN <<CELL>>
    ELSE IF char = "x" THEN <<PIT>>
    ELSE IF char = "w" THEN <<WIN>>
    ELSE <<>>

RECURSIVE ParseLine(_)
ParseLine(line) ==
    IF line = <<>> THEN <<>> ELSE ParseChar(Head(line)) \o ParseLine(Tail(line))

generate_world_map_from_file(map_string) ==
    [i \in 1..Len(map_string) |-> ParseLine(map_string[i])]

check_wall_infront(wm, pos) ==
    LET offset == handle_direction("walls", pos.direction)
    IN  Truthy(At(wm, pos.x + offset.x, pos.y + offset.y))

(* check_pit_infront testing for the treasure's value instead of the pit's. *)
check_pit_infront_testing_win(wm, pos) ==
    LET offset == handle_direction("cells", pos.direction)
    IN  At(wm, pos.x + offset.x, pos.y + offset.y) = 2

check_pit_infront(wm, pos) ==
    LET offset == handle_direction("cells", pos.direction)
    IN  At(wm, pos.x + offset.x, pos.y + offset.y) = 1

check_treasure_infront(wm, pos) ==
    LET offset == handle_direction("cells", pos.direction)
    IN  At(wm, pos.x + offset.x, pos.y + offset.y) = 2

----------------------------------------------------------------------------
(* class MiroHandler *)

(* _generate_world_map building every inner row as a row of cells. *)
_generate_world_map_cell_rows_only(dims, start) ==
    LET SECT == WALL_INTERSECTION
        first == <<SECT>> \o Rep(<<WALL, SECT>>, dims \div 2)
        middle == [k \in 1..(dims - 2) |->
                     <<WALL>> \o Rep(<<None>>, dims - 2) \o <<WALL>>]
        grid == <<first>> \o middle \o <<first>>
    IN  SetAt(grid, start.x, start.y, CELL)

_generate_world_map(dims, start) ==
    LET SECT == WALL_INTERSECTION
        first == <<SECT>> \o Rep(<<WALL, SECT>>, dims \div 2)
        middle == [k \in 1..(dims - 2) |->
                     IF (k - 1) % 2 = 0
                     THEN <<WALL>> \o Rep(<<None>>, dims - 2) \o <<WALL>>
                     ELSE <<SECT>> \o Rep(<<None, SECT>>, dims \div 2)]
        grid == <<first>> \o middle \o <<first>>
    IN  SetAt(grid, start.x, start.y, CELL)

(* move_forward stepping at the wall step instead of the cell step. *)
move_forward_wall_step(pos) ==
    LET offset == handle_direction("walls", pos.direction)
    IN  [pos EXCEPT !.x = pos.x + offset.x, !.y = pos.y + offset.y]

move_forward(pos) ==
    LET offset == handle_direction("cells", pos.direction)
    IN  [pos EXCEPT !.x = pos.x + offset.x, !.y = pos.y + offset.y]

(* move_backward: one cell against the direction; the script never calls it *)
move_backward(pos) ==
    LET offset == handle_direction("cells", pos.direction)
    IN  [pos EXCEPT !.x = pos.x - offset.x, !.y = pos.y - offset.y]

turn_left(pos) == [pos EXCEPT !.direction = left_of(pos.direction)]

turn_right(pos) == [pos EXCEPT !.direction = right_of(pos.direction)]

(* The while loop of turn_to_face: count back to the target direction. *)
RECURSIVE CountBack(_, _, _)
CountBack(direction_order, current_index, direction) ==
    IF PyGet(direction_order, current_index) # direction
    THEN CountBack(direction_order, current_index - 1, direction)
    ELSE current_index

left_count_to(pos, direction) ==
    LET direction_order == DIRECTIONS \o DIRECTIONS
        start_index == DirIndex(pos.direction) + 4
    IN  start_index - CountBack(direction_order, start_index, direction)

turn_to_face(pos, direction) ==
    LET left_count == left_count_to(pos, direction)
    IN  IF left_count = 1 THEN turn_left(pos)
        ELSE IF left_count = 2 THEN turn_left(turn_left(pos))
        ELSE IF left_count = 3 THEN turn_right(pos)
        ELSE pos

(* turn_to_face turning left three times where one right turn does. *)
turn_to_face_calls_left_only(pos, direction) ==
    LET left_count == left_count_to(pos, direction)
    IN  IF left_count = 1 THEN <<"turn_left">>
        ELSE IF left_count = 2 THEN <<"turn_left", "turn_left">>
        ELSE IF left_count = 3 THEN <<"turn_left", "turn_left", "turn_left">>
        ELSE <<>>

(* The turn_left / turn_right calls turn_to_face makes, in order. *)
turn_to_face_calls(pos, direction) ==
    LET left_count == left_count_to(pos, direction)
    IN  IF left_count = 1 THEN <<"turn_left">>
        ELSE IF left_count = 2 THEN <<"turn_left", "turn_left">>
        ELSE IF left_count = 3 THEN <<"turn_right">>
        ELSE <<>>

_get_cell_in_direction(wm, pos, target_direction) ==
    LET offset == handle_direction("cells", target_direction)
    IN  At(wm, pos.x + offset.x, pos.y + offset.y)

_get_wall_in_direction(wm, pos, target_direction) ==
    LET offset == handle_direction("walls", target_direction)
    IN  At(wm, pos.x + offset.x, pos.y + offset.y)

(* The index pair <<x, y>> one wall step, and one cell step, from pos       *)
(* towards d: the indices _get_wall_in_direction and                       *)
(* _get_cell_in_direction use.                                             *)
WallSlot(pos, d) ==
    <<pos.x + handle_direction("walls", d).x, pos.y + handle_direction("walls", d).y>>

CellSlot(pos, d) ==
    <<pos.x + handle_direction("cells", d).x, pos.y + handle_direction("cells", d).y>>

(* check_valid_path without its check of the target cell. *)
check_valid_path_no_pit_check(wm, pos, target_direction) ==
    ~Truthy(_get_wall_in_direction(wm, pos, target_direction))

(* check_valid_path without its check of the wall. *)
check_valid_path_no_wall_check(wm, pos, target_direction) ==
    LET offset == handle_direction("cells", target_direction)
    IN  ~(At(wm, pos.x + offset.x, pos.y + offset.y) = PIT)

check_valid_path(wm, pos, target_direction) ==
    IF ~Truthy(_get_wall_in_direction(wm, pos, target_direction))
    THEN LET offset == handle_direction("cells", target_direction)
         IN  ~(At(wm, pos.x + offset.x, pos.y + offset.y) = PIT)
    ELSE FALSE

(* record_wall_infront writing at the cell step instead of the wall step. *)
record_wall_infront_cell_step(wm, pos, wall_infront) ==
    LET offset == handle_direction("cells", pos.direction)
    IN  SetAt(wm, pos.x + offset.x, pos.y + offset.y,
              IF wall_infront THEN WALL ELSE NO_WALL)

record_wall_infront(wm, pos, wall_infront) ==
    LET offset == handle_direction("walls", pos.direction)
    IN  SetAt(wm, pos.x + offset.x, pos.y + offset.y,
              IF wall_infront THEN WALL ELSE NO_WALL)

(* record_pit_infront writing at the wall step instead of the cell step. *)
record_pit_infront_wall_step(wm, pos, pit_infront) ==
    LET offset == handle_direction("walls", pos.direction)
    IN  SetAt(wm, pos.x + offset.x, pos.y + offset.y,
              IF pit_infront THEN PIT ELSE CELL)

record_pit_infront(wm, pos, pit_infront) ==
    LET offset == handle_direction("cells", pos.direction)
    IN  SetAt(wm, pos.x + offset.x, pos.y + offset.y,
              IF pit_infront THEN PIT ELSE CELL)

(* direction_recorded taking a wall that was never scanned as recorded. *)
direction_recorded_unscanned_wall(wm, pos, direction) ==
    LET wall_value == _get_wall_in_direction(wm, pos, direction)
    IN  IF wall_value = 0
        THEN ~(_get_cell_in_direction(wm, pos, direction) = None)
        ELSE TRUE

direction_recorded(wm, pos, direction) ==
    LET wall_value == _get_wall_in_direction(wm, pos, direction)
    IN  IF wall_value = 0
        THEN ~(_get_cell_in_direction(wm, pos, direction) = None)
        ELSE ~(wall_value = None)

(* generate_direction_priority ignoring its order: the pathfinding tuple   *)
(* is returned for scanning too.                                           *)
generate_direction_priority_ignoring_order(pos, order) ==
    LET forward_direction == left_of(pos.direction)
        backward == left_of(left_of(pos.direction))
    IN  <<forward_direction, left_of(forward_direction),
          right_of(forward_direction), backward>>

generate_direction_priority(pos, order) ==
    LET forward_direction ==
            IF order = "pathfinding" THEN left_of(pos.direction) ELSE pos.direction
        backward == left_of(left_of(pos.direction))
    IN  <<forward_direction, left_of(forward_direction)>> \o
        (IF order = "pathfinding"
         THEN <<right_of(forward_direction), backward>>
         ELSE <<backward, right_of(forward_direction)>>)

RECURSIVE CountFrom(_, _, _)
CountFrom(wm, scanning_start_cell, k) ==
    IF k > Len(DIRECTIONS) THEN 0
    ELSE LET scan_direction == DIRECTIONS[k]
             offset == handle_direction("cells", scan_direction)
             found ==
                 IF ~(_get_wall_in_direction(wm, scanning_start_cell, scan_direction) = WALL)
                 THEN At(wm, scanning_start_cell.x + offset.x,
                             scanning_start_cell.y + offset.y) = None
                 ELSE FALSE
         IN  (IF found THEN 1 ELSE 0) + CountFrom(wm, scanning_start_cell, k + 1)

count_surrounding_unexplored(wm, scanning_start_cell) ==
    CountFrom(wm, scanning_start_cell, 1)

(* The for loop of find_best_direction: unexplored_dict after the          *)
(* directions priority[k..] have been handled.                             *)
RECURSIVE FillDict(_, _, _, _, _)
FillDict(wm, pos, priority, k, unexplored_dict) ==
    IF k > Len(priority) THEN unexplored_dict
    ELSE LET move_direction == priority[k]
             offset == handle_direction("cells", move_direction)
             count == count_surrounding_unexplored(
                          wm, Position(pos.x + offset.x, pos.y + offset.y, None))
             with_key == IF count \in DOMAIN unexplored_dict
                         THEN unexplored_dict
                         ELSE unexplored_dict @@ (count :> <<>>)
         IN  IF check_valid_path(wm, pos, move_direction)
             THEN FillDict(wm, pos, priority, k + 1,
                           [with_key EXCEPT ![count] = Append(@, move_direction)])
             ELSE FillDict(wm, pos, priority, k + 1, unexplored_dict)

EmptyDict == [k \in {} |-> <<>>]

(* max(unexplored_dict) taken as the smallest key. *)
MaxKey_smallest(d) == CHOOSE k \in DOMAIN d : \A j \in DOMAIN d : k <= j

MaxKey(d) == CHOOSE k \in DOMAIN d : \A j \in DOMAIN d : j <= k

(* The direction returned, or "ValueError" when max() is given an empty dict. *)
(* find_best_direction taking the last direction of the best list. *)
find_best_direction_last(wm, pos) ==
    LET unexplored_dict ==
            FillDict(wm, pos, generate_direction_priority(pos, "pathfinding"),
                     1, EmptyDict)
        best == unexplored_dict[MaxKey(unexplored_dict)]
    IN  IF DOMAIN unexplored_dict = {} THEN "ValueError"
        ELSE best[Len(best)]

(* find_best_direction falling back on the forward direction when no       *)
(* direction is valid.                                                     *)
find_best_direction_default_forward(wm, pos) ==
    LET priority == generate_direction_priority(pos, "pathfinding")
        unexplored_dict == FillDict(wm, pos, priority, 1, EmptyDict)
    IN  IF DOMAIN unexplored_dict = {} THEN priority[1]
        ELSE unexplored_dict[MaxKey(unexplored_dict)][1]

find_best_direction(wm, pos) ==
    LET unexplored_dict ==
            FillDict(wm, pos, generate_direction_priority(pos, "pathfinding"),
                     1, EmptyDict)
    IN  IF DOMAIN unexplored_dict = {} THEN "ValueError"
        ELSE unexplored_dict[MaxKey(unexplored_dict)][1]

----------------------------------------------------------------------------
(* Inputs: the configured map, a further map of side 3, and every enclosed *)
(* map of side 1..MaxMapSize with one treasure, at most MaxWalls interior  *)
(* walls and at most MaxPits pits, none of them in the start cell.         *)

MaxMapSize == 2
MaxWalls == 2
MaxPits == 1

(* The number of cells outside the map a caller takes the pose to. *)
MaxOffMap == 1

RECURSIVE SubsetsUpTo(_, _)
SubsetsUpTo(S, k) ==
    IF k = 0 THEN {{}}
    ELSE LET smaller == SubsetsUpTo(S, k - 1)
         IN  smaller \cup {T \cup {e} : T \in smaller, e \in S}

CellSlots(size) ==
    {<<x, y>> \in (0..2 * size) \X (0..2 * size) : x % 2 = 1 /\ y % 2 = 1}

InteriorWallSlots(size) ==
    {<<x, y>> \in (1..2 * size - 1) \X (1..2 * size - 1) : (x + y) % 2 = 1}

StartSlot(size) == <<1, size * 2 - 1>>

MapChar(size, walls, pits, goal, x, y) ==
    IF x % 2 = 0 /\ y % 2 = 0 THEN "+"
    ELSE IF y % 2 = 0
         THEN (IF y = 0 \/ y = 2 * size \/ <<x, y>> \in walls THEN "-" ELSE ".")
    ELSE IF x % 2 = 0
         THEN (IF x = 0 \/ x = 2 * size \/ <<x, y>> \in walls THEN "|" ELSE ".")
    ELSE IF <<x, y>> = goal THEN "w"
    ELSE IF <<x, y>> \in pits THEN "x"
    ELSE "o"

MapString(size, walls, pits, goal) ==
    [r \in 1..(2 * size + 1) |->
        [c \in 1..(2 * size + 1) |-> MapChar(size, walls, pits, goal, c - 1, r - 1)]]

(* A further configuration: a map of side 3 with the treasure in the       *)
(* bottom right corner, below a pit.                                       *)
PIT_MAP_STRING ==
  <<
    <<"+"," "," ","-"," "," ","+"," "," ","-"," "," ","+"," "," ","-"," "," ","+">>,
    <<"|"," "," ","o"," "," ","."," "," ","o"," "," ","."," "," ","o"," "," ","|">>,
    <<"+"," "," ","."," "," ","+"," "," ","."," "," ","+"," "," ","."," "," ","+">>,
    <<"|"," "," ","o"," "," ","."," "," ","o"," "," ","."," "," ","x"," "," ","|">>,
    <<"+"," "," ","."," "," ","+"," "," ","."," "," ","+"," "," ","."," "," ","+">>,
    <<"|"," "," ","o"," "," ","."," "," ","o"," "," ","."," "," ","w"," "," ","|">>,
    <<"+"," "," ","-"," "," ","+"," "," ","-"," "," ","+"," "," ","-"," "," ","+">>
  >>

(* Construction from a configuration: lines 528-538. *)
Start(size, map_string) ==
    /\ map_dimensions = size * 2 + 1
    /\ position = Position(1, size * 2 - 1, "east")
    /\ world_map = _generate_world_map(size * 2 + 1,
                                       Position(1, size * 2 - 1, "east"))
    /\ sim_world_map = generate_world_map_from_file(map_string)
    /\ goal_reached = FALSE
    /\ directions = <<>>
    /\ scan_i = 0
    /\ pc = "while"

----------------------------------------------------------------------------
(* The script: construction and the main loop *)

Init ==
    \/ Start(MAP_SIZE, WORLD_MAP_STRING)
    \/ Start((Len(PIT_MAP_STRING) - 1) \div 2, PIT_MAP_STRING)
    \/ \E size \in 1..MaxMapSize :
         \E walls \in SubsetsUpTo(InteriorWallSlots(size), MaxWalls) :
           \E goal \in CellSlots(size) :
             \E pits \in SubsetsUpTo(CellSlots(size) \ {StartSlot(size), goal}, MaxPits) :
               Start(size, MapString(size, walls, pits, goal))

(* while not goal_reached: directions = generate_direction_priority("scanning") *)
WhileEnter ==
    /\ pc = "while"
    /\ ~goal_reached
    /\ directions' = generate_direction_priority(position, "scanning")
    /\ scan_i' = 1
    /\ pc' = "for"
    /\ UNCHANGED <<map_dimensions, sim_world_map, world_map, position, goal_reached>>

(* the loop condition fails: the final print *)
WhileExit ==
    /\ pc = "while"
    /\ goal_reached
    /\ pc' = "done"
    /\ UNCHANGED <<map_dimensions, sim_world_map, world_map, position, goal_reached,
                   directions, scan_i>>

(* the for loop has run through directions *)
ForExit ==
    /\ pc = "for"
    /\ scan_i > Len(directions)
    /\ pc' = "if"
    /\ UNCHANGED <<map_dimensions, sim_world_map, world_map, position, goal_reached,
                   directions, scan_i>>

(* the direction has already been recorded *)
ScanSkip ==
    /\ pc = "for"
    /\ scan_i <= Len(directions)
    /\ direction_recorded(world_map, position, directions[scan_i])
    /\ scan_i' = scan_i + 1
    /\ UNCHANGED <<map_dimensions, sim_world_map, world_map, position, goal_reached,
                   directions, pc>>

(* turn to face the direction; a wall is in front and is recorded *)
ScanWall ==
    /\ pc = "for"
    /\ scan_i <= Len(directions)
    /\ ~direction_recorded(world_map, position, directions[scan_i])
    /\ \E faced \in {turn_to_face(position, directions[scan_i])} :
           /\ check_wall_infront(sim_world_map, faced)
           /\ position' = faced
           /\ world_map' = record_wall_infront(world_map, faced, TRUE)
    /\ scan_i' = scan_i + 1
    /\ UNCHANGED <<map_dimensions, sim_world_map, goal_reached, directions, pc>>

(* no wall in front, and the treasure is: move onto it and break *)
ScanTreasure ==
    /\ pc = "for"
    /\ scan_i <= Len(directions)
    /\ ~direction_recorded(world_map, position, directions[scan_i])
    /\ \E faced \in {turn_to_face(position, directions[scan_i])} :
           /\ ~check_wall_infront(sim_world_map, faced)
           /\ check_treasure_infront(sim_world_map, faced)
           /\ world_map' = record_wall_infront(world_map, faced, FALSE)
           /\ position' = move_forward(faced)
    /\ goal_reached' = TRUE
    /\ pc' = "if"
    /\ UNCHANGED <<map_dimensions, sim_world_map, directions, scan_i>>

(* no wall and no treasure in front: record whether there is a pit *)
ScanPit ==
    /\ pc = "for"
    /\ scan_i <= Len(directions)
    /\ ~direction_recorded(world_map, position, directions[scan_i])
    /\ \E faced \in {turn_to_face(position, directions[scan_i])} :
           /\ ~check_wall_infront(sim_world_map, faced)
           /\ ~check_treasure_infront(sim_world_map, faced)
           /\ position' = faced
           /\ world_map' = record_pit_infront(
                               record_wall_infront(world_map, faced, FALSE), faced,
                               check_pit_infront(sim_world_map, faced))
    /\ scan_i' = scan_i + 1
    /\ UNCHANGED <<map_dimensions, sim_world_map, goal_reached, directions, pc>>

(* if not goal_reached: find_best_direction, turn_to_face, move_forward *)
Move ==
    /\ pc = "if"
    /\ ~goal_reached
    /\ \E target_drection \in {find_best_direction(world_map, position)} :
           /\ target_drection # "ValueError"
           /\ position' = move_forward(turn_to_face(position, target_drection))
    /\ pc' = "while"
    /\ UNCHANGED <<map_dimensions, sim_world_map, world_map, goal_reached,
                   directions, scan_i>>

(* find_best_direction raises: max() of an empty unexplored_dict *)
Stuck ==
    /\ pc = "if"
    /\ ~goal_reached
    /\ find_best_direction(world_map, position) = "ValueError"
    /\ pc' = "ValueError"
    /\ UNCHANGED <<map_dimensions, sim_world_map, world_map, position, goal_reached,
                   directions, scan_i>>

(* goal_reached: the move is skipped *)
IfSkip ==
    /\ pc = "if"
    /\ goal_reached
    /\ pc' = "while"
    /\ UNCHANGED <<map_dimensions, sim_world_map, world_map, position, goal_reached,
                   directions, scan_i>>

Next ==
    \/ WhileEnter
    \/ WhileExit
    \/ ForExit
    \/ ScanSkip
    \/ ScanWall
    \/ ScanTreasure
    \/ ScanPit
    \/ Move
    \/ Stuck
    \/ IfSkip

Spec == Init /\ [][Next]_vars

(* A caller of the class other than the script calls move_backward, at any *)
(* point of the run: the Miro steps one cell against its direction; the    *)
(* method checks nothing and writes nothing to the map, and the pose may   *)
(* leave the map.  The script never makes this call, so the step is no     *)
(* disjunct of Next.  MaxOffMap bounds how many cells outside the map the  *)
(* caller takes the pose.                                                  *)
MoveBackward ==
    /\ \E moved \in {move_backward(position)} :
           /\ moved.x \in (1 - 2 * MaxOffMap)..(map_dimensions - 2 + 2 * MaxOffMap)
           /\ moved.y \in (1 - 2 * MaxOffMap)..(map_dimensions - 2 + 2 * MaxOffMap)
           /\ position' = moved
    /\ UNCHANGED <<map_dimensions, sim_world_map, world_map, goal_reached,
                   directions, scan_i, pc>>

(* m[slot[2]][slot[1]] raises IndexError *)
OutOfRange(m, slot) ==
    IF ~InRange(m, slot[2]) THEN TRUE
    ELSE ~InRange(PyGet(m, slot[2]), slot[1])

(* direction_recorded raises IndexError: the wall slot, or the cell slot   *)
(* read when the wall value is 0, is outside the map.                      *)
direction_recorded_raises(wm, pos, direction) ==
    IF OutOfRange(wm, WallSlot(pos, direction)) THEN TRUE
    ELSE IF _get_wall_in_direction(wm, pos, direction) = 0
         THEN OutOfRange(wm, CellSlot(pos, direction))
         ELSE FALSE

(* check_valid_path raises IndexError *)
check_valid_path_raises(wm, pos, target_direction) ==
    IF OutOfRange(wm, WallSlot(pos, target_direction)) THEN TRUE
    ELSE IF ~Truthy(_get_wall_in_direction(wm, pos, target_direction))
         THEN OutOfRange(wm, CellSlot(pos, target_direction))
         ELSE FALSE

(* count_surrounding_unexplored raises IndexError *)
count_surrounding_unexplored_raises(wm, scanning_start_cell) ==
    \E k \in 1..Len(DIRECTIONS) :
       IF OutOfRange(wm, WallSlot(scanning_start_cell, DIRECTIONS[k])) THEN TRUE
       ELSE IF ~(_get_wall_in_direction(wm, scanning_start_cell, DIRECTIONS[k]) = WALL)
            THEN OutOfRange(wm, CellSlot(scanning_start_cell, DIRECTIONS[k]))
            ELSE FALSE

(* find_best_direction raises IndexError *)
find_best_direction_raises(wm, pos) ==
    LET priority == generate_direction_priority(pos, "pathfinding")
    IN  \E k \in 1..Len(priority) :
           IF check_valid_path_raises(wm, pos, priority[k]) THEN TRUE
           ELSE IF check_valid_path(wm, pos, priority[k])
                THEN count_surrounding_unexplored_raises(
                         wm, Position(CellSlot(pos, priority[k])[1],
                                      CellSlot(pos, priority[k])[2], None))
                ELSE FALSE

(* The next step of the script raises IndexError: in direction_recorded or *)
(* in find_best_direction, before it has changed anything.  The rest of a  *)
(* pass of the scan uses the wall slot direction_recorded has read and,    *)
(* when nothing is in the way, the cell slot behind it; a wall slot has an *)
(* even index along its direction, so the last one in range is a slot of   *)
(* the boundary ring, which is never None and never 0: the pass stops      *)
(* before it reaches a cell slot out of range.                             *)
RaisesIndexError ==
    IF pc = "for" /\ scan_i <= Len(directions)
    THEN direction_recorded_raises(world_map, position, directions[scan_i])
    ELSE IF pc = "if" /\ ~goal_reached
    THEN find_best_direction_raises(world_map, position)
    ELSE FALSE

(* the script ends with an IndexError that changed nothing *)
IndexErrorStep ==
    /\ RaisesIndexError
    /\ pc' = "IndexError"
    /\ UNCHANGED <<map_dimensions, sim_world_map, world_map, position, goal_reached,
                   directions, scan_i>>

(* A step of the script on a handler whose pose a caller may have taken    *)
(* off the map: the step of Next, unless an index it uses is outside the   *)
(* map.                                                                    *)
HandlerNext ==
    \/ /\ ~RaisesIndexError
       /\ Next
    \/ IndexErrorStep
    \/ MoveBackward

(* The script run on the configured maps and on the map of a single cell   *)
(* that holds the treasure; it runs on: every step that can be taken is    *)
(* taken.                                                                  *)
LiveInit ==
    \/ Start(MAP_SIZE, WORLD_MAP_STRING)
    \/ Start((Len(PIT_MAP_STRING) - 1) \div 2, PIT_MAP_STRING)
    \/ Start(1, MapString(1, {}, {}, <<1, 1>>))

LiveSpec == LiveInit /\ [][Next]_vars /\ WF_vars(Next)

(* The script on the maps without inner walls with a caller that may call  *)
(* move_backward at any point.                                             *)
HandlerInit ==
    \E size \in 1..MaxMapSize : \E goal \in CellSlots(size) :
       \E pits \in SubsetsUpTo(CellSlots(size) \ {StartSlot(size), goal}, MaxPits) :
          Start(size, MapString(size, {}, pits, goal))

HandlerSpec == HandlerInit /\ [][HandlerNext]_vars

----------------------------------------------------------------------------
(* Vocabulary of the properties *)

Dirs == {DIRECTIONS[i] : i \in 1..Len(DIRECTIONS)}

(* The main loop is about to decide on a move (line 570). *)
Deciding == pc = "if" /\ ~goal_reached

(* The main loop has just made a move (line 572). *)
JustMoved == pc = "while" /\ ~goal_reached /\ scan_i > 0

(* The neighbouring cell of pos in direction d. *)
Neighbour(pos, d) ==
    Position(pos.x + handle_direction("cells", d).x,
             pos.y + handle_direction("cells", d).y, None)

(* The cell the Miro stood on before a move_forward in its direction. *)
CameFrom(pos) ==
    Position(pos.x - handle_direction("cells", pos.direction).x,
             pos.y - handle_direction("cells", pos.direction).y, None)

(* The wall segment towards d is recorded as no wall and the cell behind   *)
(* it is not recorded as a pit.                                            *)
PathOpen(wm, pos, d) ==
    /\ _get_wall_in_direction(wm, pos, d) = NO_WALL
    /\ _get_cell_in_direction(wm, pos, d) # PIT

(* The score find_best_direction ranks the neighbour in direction d by. *)
Score(wm, pos, d) == count_surrounding_unexplored(wm, Neighbour(pos, d))

----------------------------------------------------------------------------
(* The index pairs one pass of the scan loop for scan_direction uses:      *)
(* direction_recorded reads the wall slot, and the cell slot when the wall *)
(* value is 0; an unrecorded direction is then faced, check_wall_infront   *)
(* reads and record_wall_infront writes the wall slot, and with no wall in *)
(* front the treasure and pit queries and record_pit_infront use the cell  *)
(* slot.                                                                   *)
scan_indices(wm, sim, pos, scan_direction) ==
    LET faced == turn_to_face(pos, scan_direction)
    IN  {WallSlot(pos, scan_direction)}
           \cup (IF _get_wall_in_direction(wm, pos, scan_direction) = 0
                 THEN {CellSlot(pos, scan_direction)} ELSE {})
           \cup (IF /\ ~direction_recorded(wm, pos, scan_direction)
                    /\ ~check_wall_infront(sim, faced)
                 THEN {CellSlot(faced, faced.direction)} ELSE {})

(* count_surrounding_unexplored reading the cell behind known walls too. *)
count_surrounding_unexplored_indices_unguarded(wm, scanning_start_cell) ==
    UNION {{WallSlot(scanning_start_cell, DIRECTIONS[k]),
            CellSlot(scanning_start_cell, DIRECTIONS[k])} : k \in 1..Len(DIRECTIONS)}

(* The index pairs count_surrounding_unexplored reads: every wall slot     *)
(* around the cell, and the cell slot behind each wall slot that does not  *)
(* hold WALL.                                                              *)
count_surrounding_unexplored_indices(wm, scanning_start_cell) ==
    UNION {{WallSlot(scanning_start_cell, DIRECTIONS[k])}
              \cup (IF ~(_get_wall_in_direction(wm, scanning_start_cell, DIRECTIONS[k]) = WALL)
                    THEN {CellSlot(scanning_start_cell, DIRECTIONS[k])} ELSE {})
           : k \in 1..Len(DIRECTIONS)}

(* The index pairs find_best_direction reads: for each direction of the    *)
(* priority check_valid_path reads the wall slot, the cell slot when the   *)
(* wall value is falsy, and for a valid path the count reads around the    *)
(* neighbouring cell.                                                      *)
find_best_direction_indices(wm, pos) ==
    LET priority == generate_direction_priority(pos, "pathfinding")
    IN  UNION {{WallSlot(pos, priority[k])}
                  \cup (IF ~Truthy(_get_wall_in_direction(wm, pos, priority[k]))
                        THEN {CellSlot(pos, priority[k])} ELSE {})
                  \cup (IF check_valid_path(wm, pos, priority[k])
                        THEN count_surrounding_unexplored_indices(
                                 wm, Neighbour(pos, priority[k]))
                        ELSE {})
               : k \in 1..Len(priority)}

(* The index pairs the step the main loop is about to take uses. *)
Indices ==
    IF pc = "for" /\ scan_i <= Len(directions)
    THEN scan_indices(world_map, sim_world_map, position, directions[scan_i])
    ELSE IF Deciding
    THEN find_best_direction_indices(world_map, position)
    ELSE {}

(* C1: hazard avoidance.  Every move of the move phase advances into a     *)
(* cell that the Miro's map does not record as a pit, also when a pit      *)
(* neighbour has the largest count of unexplored cells around it.          *)
C1_HazardAvoidance ==
    [][(Deciding /\ pc' = "while")
         => /\ CameFrom(position').x = position.x
            /\ CameFrom(position').y = position.y
            /\ At(world_map', position'.x, position'.y) # PIT]_vars

(* A move has just been made from a cell with a neighbour that is recorded *)
(* as a pit behind an open wall segment and that has a larger count than   *)
(* every open neighbour.                                                   *)
C1_Witness ==
    /\ JustMoved
    /\ \E d \in Dirs :
        /\ _get_wall_in_direction(world_map, CameFrom(position), d) = NO_WALL
        /\ _get_cell_in_direction(world_map, CameFrom(position), d) = PIT
        /\ \A e \in Dirs :
              PathOpen(world_map, CameFrom(position), e)
                 => Score(world_map, CameFrom(position), d)
                      > Score(world_map, CameFrom(position), e)

(* C2: in every deciding state in which find_best_direction returns a      *)
(* direction, the wall segment towards it is recorded as no wall and the   *)
(* neighbouring cell is not recorded as a pit.                             *)
C2_BestMoveIsOpen ==
    (Deciding /\ find_best_direction(world_map, position) # "ValueError")
        => PathOpen(world_map, position, find_best_direction(world_map, position))

(* A deciding state in which a direction is returned while another         *)
(* direction is closed by a wall and a third by a pit.                     *)
C2_Witness ==
    /\ Deciding
    /\ find_best_direction(world_map, position) # "ValueError"
    /\ \E d \in Dirs : _get_wall_in_direction(world_map, position, d) = WALL
    /\ \E d \in Dirs : /\ _get_wall_in_direction(world_map, position, d) = NO_WALL
                       /\ _get_cell_in_direction(world_map, position, d) = PIT

(* C3: monotonic knowledge.  A slot of the Miro's map that holds a value   *)
(* other than None keeps that value in every step: it neither returns to   *)
(* None nor is overwritten by another value.  The boundary walls and the   *)
(* start cell written by _generate_world_map are such slots.               *)
C3_MonotonicKnowledge ==
    [][\A y \in 1..Len(world_map) : \A x \in 1..Len(world_map[y]) :
          world_map[y][x] # None => world_map'[y][x] = world_map[y][x]]_vars

(* A scan has just recorded a pit that was already recorded from another   *)
(* side: two of the wall segments around the pit are recorded as no wall,  *)
(* and each was recorded, together with the pit, by a scan from outside.   *)
C3_Witness ==
    /\ pc = "for"
    /\ scan_i > 1
    /\ _get_wall_in_direction(world_map, position, position.direction) = NO_WALL
    /\ _get_cell_in_direction(world_map, position, position.direction) = PIT
    /\ \E e \in Dirs \ {left_of(left_of(position.direction))} :
          _get_wall_in_direction(world_map,
                                 Neighbour(position, position.direction), e) = NO_WALL

(* C4: scan completeness before a move.  A step that changes the Miro's    *)
(* coordinates is either a move made when find_best_direction is called    *)
(* with all four directions recorded from the cell, or the move onto the   *)
(* treasure found during the scan.                                         *)
C4_ScanCompleteBeforeMove ==
    [][(position'.x # position.x \/ position'.y # position.y)
         => \/ /\ Deciding
               /\ \A d \in Dirs : direction_recorded(world_map, position, d)
            \/ /\ pc = "for"
               /\ ~goal_reached
               /\ goal_reached']_vars

(* A move has just been made from a cell with all four directions         *)
(* recorded, one of them scanned as open.                                  *)
C4_Witness ==
    /\ JustMoved
    /\ \A d \in Dirs : direction_recorded(world_map, CameFrom(position), d)
    /\ \E d \in Dirs :
          _get_wall_in_direction(world_map, CameFrom(position), d) = NO_WALL

(* C5: goal handling.  The step that finds the treasure ahead (no wall     *)
(* ahead) turns to the scanned direction, advances one cell step in it and *)
(* leaves the Miro on the treasure cell of the ground truth with           *)
(* goal_reached set.  From then on the map and the position are never      *)
(* written and the loop only leaves (a step towards "done" is enabled      *)
(* until it is reached): the treasure cell's slot stays None, no slot ever *)
(* holds WIN, and no scan, decision or move follows.                       *)
C5_GoalHandling ==
    /\ [](goal_reached =>
            /\ pc \in {"if", "while", "done"}
            /\ At(sim_world_map, position.x, position.y) = WIN
            /\ At(world_map, position.x, position.y) = None
            /\ (pc # "done" => ENABLED <<Next>>_vars))
    /\ [](\A y \in 1..Len(world_map) : \A x \in 1..Len(world_map[y]) :
            world_map[y][x] # WIN)
    /\ [][(~goal_reached /\ goal_reached')
            => /\ pc = "for"
               /\ position'.direction = directions[scan_i]
               /\ ~check_wall_infront(sim_world_map,
                                       turn_to_face(position, directions[scan_i]))
               /\ CameFrom(position').x = position.x
               /\ CameFrom(position').y = position.y]_vars
    /\ [][goal_reached
            => /\ goal_reached'
               /\ UNCHANGED <<world_map, position, sim_world_map>>
               /\ pc' \in {"while", "done"}]_vars

(* The run has ended on the treasure, which was found after a move. *)
C5_Witness ==
    /\ pc = "done"
    /\ goal_reached
    /\ At(sim_world_map, position.x, position.y) = WIN
    /\ <<CameFrom(position).x, CameFrom(position).y>>
         # <<1, map_dimensions - 2>>

(* C6: every run comes to an end: it reaches the final print with the      *)
(* treasure found, or find_best_direction fails for want of a direction.   *)
C6_RunsToCompletion == <>(pc \in {"done", "ValueError"})

(* C7: on a map of side 1 whose single cell holds the treasure, the first  *)
(* scan finds the treasure: when the first for loop is left, goal_reached  *)
(* is set, and find_best_direction is never called.                        *)
C7_SingleCellGoal ==
    (map_dimensions = 3 /\ At(sim_world_map, 1, 1) = WIN)
        => /\ ~Deciding
           /\ pc # "ValueError"

(* C8: tie-break.  In every deciding state in which a direction is         *)
(* returned, it is the first direction of the pathfinding priority among   *)
(* the valid ones whose neighbour has the largest count; and on a map of   *)
(* side 2, when north and east of the start are open and have equal        *)
(* counts, the one that comes first in the priority is returned.           *)
C8_TieBreak ==
    LET priority == generate_direction_priority(position, "pathfinding")
        valid == {k \in 1..Len(priority) :
                     check_valid_path(world_map, position, priority[k])}
        top == {k \in valid :
                   \A j \in valid : Score(world_map, position, priority[j])
                                       <= Score(world_map, position, priority[k])}
        result == find_best_direction(world_map, position)
    IN  /\ (Deciding /\ valid # {})
              => /\ result \in Dirs
                 /\ \E k \in top : /\ priority[k] = result
                                   /\ \A j \in top : k <= j
        /\ (/\ Deciding
            /\ map_dimensions = 5
            /\ <<position.x, position.y>> = <<1, 3>>
            /\ PathOpen(world_map, position, "north")
            /\ PathOpen(world_map, position, "east")
            /\ Score(world_map, position, "north") = Score(world_map, position, "east"))
              => \E k \in 1..Len(priority) :
                    /\ priority[k] = result
                    /\ result \in {"north", "east"}
                    /\ \A j \in 1..Len(priority) :
                          priority[j] \in {"north", "east"} => k <= j

(* A deciding state in which two different valid directions of the         *)
(* priority tie on the largest count.                                      *)
C8_Witness ==
    LET priority == generate_direction_priority(position, "pathfinding")
        valid == {priority[k] : k \in {j \in 1..Len(priority) :
                     check_valid_path(world_map, position, priority[j])}}
    IN  /\ Deciding
        /\ \E d \in valid : \E e \in valid \ {d} :
              /\ Score(world_map, position, d) = Score(world_map, position, e)
              /\ \A f \in valid : Score(world_map, position, f)
                                     <= Score(world_map, position, d)

(* C9: stuck is surfaced.  When find_best_direction is called at a cell    *)
(* from which no direction is open, the step raises ValueError and leaves  *)
(* the position and the map as they were; nothing runs after the error.    *)
C9_StuckSurfaced ==
    /\ [][(Deciding /\ \A d \in Dirs : ~PathOpen(world_map, position, d))
            => /\ pc' = "ValueError"
               /\ UNCHANGED <<position, world_map>>]_vars
    /\ [][pc # "ValueError"]_vars

(* The run has failed at a cell from which no direction is open. *)
C9_Witness ==
    /\ pc = "ValueError"
    /\ \A d \in Dirs : ~PathOpen(world_map, position, d)

(* C10: geometry round trip.  left_of and right_of undo each other on      *)
(* every direction, and the offsets of a direction turned left and right   *)
(* again are those of the direction, for the wall step and the cell step.  *)
C10_GeometryRoundTrip ==
    \A d \in Dirs \cup {position.direction} :
        /\ left_of(right_of(d)) = d
        /\ right_of(left_of(d)) = d
        /\ \A step_type \in {"walls", "cells"} :
              handle_direction(step_type, right_of(left_of(d)))
                 = handle_direction(step_type, d)

(* The Miro has turned through the wrap of DIRECTIONS: it faces north      *)
(* after a left turn from east, or west after turns from north.            *)
C10_Witness ==
    /\ pc = "for"
    /\ scan_i > 2
    /\ position.direction \in {"north", "west"}

(* C11: intersection invariant.  In the initial map and in every state     *)
(* reached, the slots with even x and even y hold the wall intersection    *)
(* and no other slot does; no step writes to such a slot.                  *)
C11_IntersectionInvariant ==
    /\ [](\A y \in 1..Len(world_map) : \A x \in 1..Len(world_map[y]) :
            ((x - 1) % 2 = 0 /\ (y - 1) % 2 = 0)
               <=> world_map[y][x] = WALL_INTERSECTION)
    /\ [][\A y \in 1..Len(world_map) : \A x \in 1..Len(world_map[y]) :
            ((x - 1) % 2 = 0 /\ (y - 1) % 2 = 0)
               => world_map'[y][x] = world_map[y][x]]_vars

(* A scan has recorded the wall segment and the cell in front, next to an  *)
(* inner intersection, and the Miro has moved on.                          *)
C11_Witness ==
    /\ map_dimensions >= 5
    /\ JustMoved
    /\ At(world_map, 2, 2) = WALL_INTERSECTION
    /\ \E s \in {<<1, 2>>, <<2, 1>>, <<3, 2>>, <<2, 3>>} :
          At(world_map, s[1], s[2]) \in {WALL, NO_WALL}

(* The unexplored score as the specification words it: the number of       *)
(* directions from the cell whose wall segment is not recorded as a wall   *)
(* and whose neighbouring cell slot is None.                               *)
UnexploredScore(wm, cell) ==
    Cardinality({d \in Dirs :
                    /\ _get_wall_in_direction(wm, cell, d) # WALL
                    /\ _get_cell_in_direction(wm, cell, d) = None})

(* C12: in every deciding state in which find_best_direction returns a     *)
(* direction, it is a direction of the pathfinding priority that is open,  *)
(* and no open direction of the priority leads to a cell with a larger     *)
(* unexplored score; the count the code computes is that score, a number   *)
(* from 0 to 4.                                                            *)
C12_BestMoveMaximisesScore ==
    LET priority == generate_direction_priority(position, "pathfinding")
        candidates == {priority[k] : k \in 1..Len(priority)}
        result == find_best_direction(world_map, position)
    IN  (Deciding /\ result # "ValueError")
           => /\ result \in candidates
              /\ PathOpen(world_map, position, result)
              /\ \A d \in candidates :
                    PathOpen(world_map, position, d)
                       => /\ count_surrounding_unexplored(world_map, Neighbour(position, d))
                               = UnexploredScore(world_map, Neighbour(position, d))
                          /\ UnexploredScore(world_map, Neighbour(position, d)) \in 0..4
                          /\ UnexploredScore(world_map, Neighbour(position, d))
                               <= UnexploredScore(world_map, Neighbour(position, result))

(* A deciding state in which the direction returned has a larger score     *)
(* than an open direction that comes before it in the priority.            *)
C12_Witness ==
    LET priority == generate_direction_priority(position, "pathfinding")
        result == find_best_direction(world_map, position)
    IN  /\ Deciding
        /\ result # "ValueError"
        /\ \E k \in 1..Len(priority) : \E j \in 1..Len(priority) :
              /\ j < k
              /\ priority[k] = result
              /\ PathOpen(world_map, position, priority[j])
              /\ UnexploredScore(world_map, Neighbour(position, priority[j]))
                   < UnexploredScore(world_map, Neighbour(position, result))

(* C13: in every state and for every direction, check_valid_path is true   *)
(* exactly when the wall segment in that direction is recorded NO_WALL and *)
(* the neighbouring cell is not recorded PIT; for a wall segment that is   *)
(* still None it is false.                                                 *)
C13_PathOpenIffRecordedOpen ==
    \A d \in Dirs :
       /\ check_valid_path(world_map, position, d) <=> PathOpen(world_map, position, d)
       /\ _get_wall_in_direction(world_map, position, d) = None
             => ~check_valid_path(world_map, position, d)

(* The same equivalence restricted to directions whose wall segment has    *)
(* been recorded, the assumption check_valid_path's docstring states.      *)
C13_RecordedOnly ==
    \A d \in Dirs :
       _get_wall_in_direction(world_map, position, d) # None
          => (check_valid_path(world_map, position, d)
                 <=> PathOpen(world_map, position, d))

(* C14: every scan that does not find the goal ends facing right_of(f0),   *)
(* where f0 = directions[1] is the facing the scan began with, so that the *)
(* forward direction of the pathfinding priority, left_of(facing), is f0   *)
(* whenever find_best_direction is called.                                 *)
C14_ScanEndsFacingRight ==
    Deciding => /\ position.direction = right_of(directions[1])
                /\ left_of(position.direction) = directions[1]

(* The scanning half of C15: relative to the current facing the scanning   *)
(* priority is forward, left, back, right, each direction exactly once.    *)
C15_ScanningOrder ==
    LET f == position.direction
        scanning == generate_direction_priority(position, "scanning")
    IN  /\ scanning = <<f, left_of(f), left_of(left_of(f)), right_of(f)>>
        /\ \A d \in Dirs : Cardinality({k \in 1..Len(scanning) : scanning[k] = d}) = 1

(* C15: for every facing, the pathfinding priority is forward, left,       *)
(* right, back relative to forward = left_of(facing), a 4-tuple holding    *)
(* each of north, east, south, west exactly once; and the scanning         *)
(* priority is forward, left, back, right relative to the facing, each     *)
(* direction exactly once.                                                 *)
C15_PriorityTuples ==
    LET forward == left_of(position.direction)
        pathfinding == generate_direction_priority(position, "pathfinding")
    IN  /\ pathfinding = <<forward, left_of(forward), right_of(forward),
                           left_of(left_of(forward))>>
        /\ Len(pathfinding) = 4
        /\ \A d \in Dirs :
              Cardinality({k \in 1..Len(pathfinding) : pathfinding[k] = d}) = 1
        /\ C15_ScanningOrder

(* The pose after a sequence of turn_left / turn_right calls. *)
RECURSIVE ApplyTurns(_, _)
ApplyTurns(pos, calls) ==
    IF calls = <<>> THEN pos
    ELSE ApplyTurns(IF Head(calls) = "turn_left" THEN turn_left(pos) ELSE turn_right(pos),
                    Tail(calls))

(* The directions that n quarter turns, each left or right, lead to from c. *)
RECURSIVE FacingsAfter(_, _)
FacingsAfter(c, n) ==
    IF n = 0 THEN {c}
    ELSE {left_of(d) : d \in FacingsAfter(c, n - 1)}
            \cup {right_of(d) : d \in FacingsAfter(c, n - 1)}

(* The least number of quarter turns from c to t. *)
MinTurns(c, t) ==
    CHOOSE n \in 0..2 : t \in FacingsAfter(c, n)
                        /\ \A m \in 0..(n - 1) : t \notin FacingsAfter(c, m)

(* C16: for every current direction c and target t, turn_to_face(t) leaves *)
(* the pose facing t on the same coordinates; it is made up of turn_left / *)
(* turn_right calls only, as few as possible (none when t = c, one when t  *)
(* is adjacent, two when opposite, then two turn_left); and a step of the  *)
(* scan, which turns and then records what is in front, changes no slot of *)
(* the map other than the wall and the cell in front of the new facing.    *)
C16_TurnToFace ==
    /\ [](\A c \in Dirs : \A t \in Dirs :
            LET pos == Position(position.x, position.y, c)
                calls == turn_to_face_calls(pos, t)
            IN  /\ turn_to_face(pos, t) = Position(position.x, position.y, t)
                /\ ApplyTurns(pos, calls) = turn_to_face(pos, t)
                /\ Len(calls) = MinTurns(c, t)
                /\ (t = c) <=> (Len(calls) = 0)
                /\ (t \in {left_of(c), right_of(c)}) <=> (Len(calls) = 1)
                /\ (t = left_of(left_of(c))) <=> (calls = <<"turn_left", "turn_left">>))
    /\ [][(pc = "for" /\ scan_i' = scan_i + 1)
             => LET faced == turn_to_face(position, directions[scan_i])
                    wall == handle_direction("walls", faced.direction)
                    cell == handle_direction("cells", faced.direction)
                IN  \A y \in 0..(map_dimensions - 1) : \A x \in 0..(map_dimensions - 1) :
                       (/\ <<x, y>> # <<faced.x + wall.x, faced.y + wall.y>>
                        /\ <<x, y>> # <<faced.x + cell.x, faced.y + cell.y>>)
                          => At(world_map', x, y) = At(world_map, x, y)]_vars

(* The scan is about to turn to the direction opposite to its facing. *)
C16_Witness ==
    /\ pc = "for"
    /\ scan_i <= Len(directions)
    /\ ~direction_recorded(world_map, position, directions[scan_i])
    /\ directions[scan_i] = left_of(left_of(position.direction))
    /\ turn_to_face_calls(position, directions[scan_i]) = <<"turn_left", "turn_left">>

(* C17: a record_wall_infront or record_pit_infront call whose value       *)
(* contradicts the value already recorded at the slot (WALL over NO_WALL,  *)
(* PIT over CELL, or the reverse) leaves the slot with the value it had.   *)
C17_ConflictingRecordKeepsSlot ==
    \A d \in Dirs : \A value \in BOOLEAN :
       LET pos == Position(position.x, position.y, d)
           wall == handle_direction("walls", d)
           cell == handle_direction("cells", d)
           wall_before == _get_wall_in_direction(world_map, pos, d)
       IN  /\ wall_before = (IF value THEN NO_WALL ELSE WALL)
                => At(record_wall_infront(world_map, pos, value),
                      pos.x + wall.x, pos.y + wall.y) = wall_before
           /\ (/\ pos.x + cell.x \in 1..(map_dimensions - 2)
               /\ pos.y + cell.y \in 1..(map_dimensions - 2)
               /\ _get_cell_in_direction(world_map, pos, d)
                     = (IF value THEN CELL ELSE PIT))
                => At(record_pit_infront(world_map, pos, value),
                      pos.x + cell.x, pos.y + cell.y)
                     = _get_cell_in_direction(world_map, pos, d)

(* C18: after every move of the move phase the slot of the map at the new  *)
(* coordinates holds CELL, and in every state in which the run has neither *)
(* reached the goal nor ended in an error the slot under the Miro holds    *)
(* CELL.                                                                   *)
C18_StandsOnCell ==
    /\ JustMoved => At(world_map, position.x, position.y) = CELL
    /\ (~goal_reached /\ pc # "ValueError")
          => At(world_map, position.x, position.y) = CELL

(* The Miro has moved off the start cell and stands on a slot holding CELL. *)
C18_Witness ==
    /\ JustMoved
    /\ <<position.x, position.y>> # <<1, map_dimensions - 2>>
    /\ At(world_map, position.x, position.y) = CELL

(* C19: on an enclosed maze every index the scan, the simulation queries,  *)
(* direction_recorded, check_valid_path, count_surrounding_unexplored and  *)
(* the move use lies within 0..map_dimensions - 1 on both axes, for the    *)
(* Miro's map and the simulation's map alike, and the pose stays on        *)
(* odd/odd coordinates within 1..map_dimensions - 2.                       *)
C19_IndicesInRange ==
    /\ \A s \in Indices : /\ s[1] \in 0..(map_dimensions - 1)
                          /\ s[2] \in 0..(map_dimensions - 1)
    /\ Len(world_map) = map_dimensions
    /\ Len(sim_world_map) = map_dimensions
    /\ \A y \in 1..map_dimensions : /\ Len(world_map[y]) = map_dimensions
                                    /\ Len(sim_world_map[y]) = map_dimensions
    /\ position.x \in 1..(map_dimensions - 2)
    /\ position.y \in 1..(map_dimensions - 2)
    /\ position.x % 2 = 1
    /\ position.y % 2 = 1

(* A deciding state, away from the start cell, in which find_best_direction *)
(* reads a slot of the boundary ring while counting around a neighbour.     *)
C19_Witness ==
    /\ Deciding
    /\ <<position.x, position.y>> # <<1, map_dimensions - 2>>
    /\ find_best_direction(world_map, position) # "ValueError"
    /\ \E k \in 1..4 :
          LET d == generate_direction_priority(position, "pathfinding")[k]
          IN  /\ check_valid_path(world_map, position, d)
              /\ \E s \in count_surrounding_unexplored_indices(
                              world_map, Neighbour(position, d)) :
                    s[1] \in {0, map_dimensions - 1} \/ s[2] \in {0, map_dimensions - 1}

(* The first half of C20 alone: with an open direction find_best_direction *)
(* returns a direction.                                                    *)
C20_NoFailureWhileOpen ==
    (Deciding /\ \E d \in Dirs : PathOpen(world_map, position, d))
       => find_best_direction(world_map, position) # "ValueError"

(* C20: in every deciding state in which at least one of the four          *)
(* directions from the pose is open (wall recorded NO_WALL, neighbouring   *)
(* cell not PIT) find_best_direction returns a direction instead of        *)
(* failing, and every open direction is among the directions it ranks.     *)
C20_DecideNeverFailsWhileOpen ==
    LET priority == generate_direction_priority(position, "pathfinding")
    IN  Deciding
           => /\ (\E d \in Dirs : PathOpen(world_map, position, d))
                    => find_best_direction(world_map, position) # "ValueError"
              /\ \A d \in Dirs :
                    PathOpen(world_map, position, d)
                       => \E k \in 1..Len(priority) : priority[k] = d

(* The cells of the simulation's map that can be reached from the given    *)
(* cells through wall segments that are no wall and cells that are no pit. *)
RECURSIVE ReachableFrom(_, _)
ReachableFrom(sim, cells) ==
    LET steps == {s \in cells \X Dirs :
                     /\ _get_wall_in_direction(sim, s[1], s[2]) = NO_WALL
                     /\ _get_cell_in_direction(sim, s[1], s[2]) # PIT}
        further == cells \cup {Neighbour(s[1], s[2]) : s \in steps}
    IN  IF further = cells THEN cells ELSE ReachableFrom(sim, further)

(* The treasure can be reached from the start cell. *)
GoalReachable ==
    \E c \in ReachableFrom(sim_world_map, {Position(1, map_dimensions - 2, None)}) :
       At(sim_world_map, c.x, c.y) = WIN

(* C21: goal reachability.  On an enclosed map whose treasure can be       *)
(* reached from the start cell through open wall segments and cells that   *)
(* are no pit, the run eventually sets goal_reached; it neither ends in    *)
(* the ValueError of find_best_direction nor goes on moving for ever.      *)
C21_GoalReachability ==
    GoalReachable => /\ <>goal_reached
                     /\ [](pc # "ValueError")

(* The same for maps whose treasure is not in the start cell. *)
C21_TreasureAwayFromStart ==
    (GoalReachable /\ At(sim_world_map, 1, map_dimensions - 2) # WIN)
       => <>goal_reached

(* C22 as stated: in every reachable state every slot of the Miro's map    *)
(* that is not None equals the slot of the simulation's map at the same    *)
(* coordinates.                                                            *)
C22_EqualsGroundTruth ==
    \A y \in 0..(map_dimensions - 1) : \A x \in 0..(map_dimensions - 1) :
       At(world_map, x, y) # None => At(world_map, x, y) = At(sim_world_map, x, y)

(* C22, amended: knowledge soundness.  In every reachable state every slot *)
(* of the Miro's map that is not None equals the slot of the simulation's  *)
(* map at the same coordinates (intersection, WALL or NO_WALL, CELL or     *)
(* PIT), with one exception: the start cell, which _generate_world_map     *)
(* records as CELL without a query, holds CELL also when the simulation's  *)
(* map has the treasure there; and no step changes the simulation's map.   *)
C22_KnowledgeSoundness ==
    /\ [](\A y \in 0..(map_dimensions - 1) : \A x \in 0..(map_dimensions - 1) :
            LET known == At(world_map, x, y)
                truth == At(sim_world_map, x, y)
            IN  known # None
                   => IF x % 2 = 0 /\ y % 2 = 0
                      THEN known = WALL_INTERSECTION /\ truth = WALL_INTERSECTION
                      ELSE IF x % 2 = 0 \/ y % 2 = 0
                      THEN /\ known \in {WALL, NO_WALL}
                           /\ known = truth
                      ELSE /\ known \in {CELL, PIT}
                           /\ known = PIT <=> truth = PIT
                           /\ known = CELL
                                 => \/ truth = CELL
                                    \/ /\ truth = WIN
                                       /\ <<x, y>> = <<1, map_dimensions - 2>>)
    /\ [][sim_world_map' = sim_world_map]_vars

(* The Miro has moved on a map with the treasure in the start cell, which  *)
(* its map holds as CELL, and its map holds a pit and an open inner wall   *)
(* segment it has recorded.                                                *)
C22_Witness ==
    /\ JustMoved
    /\ At(sim_world_map, 1, map_dimensions - 2) = WIN
    /\ At(world_map, 1, map_dimensions - 2) = CELL
    /\ \E y \in 1..(map_dimensions - 2) : \E x \in 1..(map_dimensions - 2) :
          x % 2 = 1 /\ y % 2 = 1 /\ At(world_map, x, y) = PIT
    /\ \E y \in 1..(map_dimensions - 2) : \E x \in 1..(map_dimensions - 2) :
          (x + y) % 2 = 1 /\ At(world_map, x, y) = NO_WALL

====
